---- MODULE Spec2Model ----
(***************************************************************************)
(* A model of terminal_gl: the terminal framebuffer (Canvas) and the       *)
(* terminal it paints, the frame orchestration (Renderer), the Camera, the *)
(* Mat4 constructors and Transform, Mesh rendering with back-face culling, *)
(* the line, triangle and circle rasterizers, and the OBJ loader.          *)
(*                                                                         *)
(* Colours are triples <<r, g, b>> of u8 values.  The terminal output of   *)
(* an operation is a sequence of tokens, one token per escape group the    *)
(* code prints.  f32 quantities are modelled in fixed point (see the       *)
(* camera and matrix sections).                                            *)
(***************************************************************************)
EXTENDS Integers, Sequences, FiniteSets, TLC

VARIABLES
    canvas,       \* Canvas { width, height, r, g, b, changed_coords }
    out,          \* what the last operation printed to the terminal
    last,         \* which canvas operation ran last
    hadBlack,     \* whether the last present() started with a black pixel tracked
    stage,        \* progress through set_pixels([P]); present(); clear(); present()
    seqP,         \* the pixel P of that sequence
    renderer,     \* Renderer { render_mode, show_fps, frame_count, current_fps }
    frame,        \* what the last render() did: emitted pixels, walk length, ...
    line,         \* endpoints handed to draw_line and the pixels it emitted
    view,         \* eye, target, up handed to Mat4::look_at and the transformed target
    camera,       \* Camera { position, target, up, forward, right, yaw, pitch }
    camOps,       \* number of camera operations run so far
    tri,          \* vertices handed to draw_triangle_filled and the pixels it emitted
    camLast,      \* which camera operation ran last, and its distance
    modeBefore,   \* the render mode before the last renderer operation
    obj,          \* Mesh::from_obj_file: its progress, the vertices and triangles read so far
    mesh,         \* a Mesh, the matrix and mode it was rendered with, and each triangle's pixels
    term,         \* the terminal screen the printed tokens have painted
    circle        \* the arguments of draw_circle and the pixels it emitted

vars == <<canvas, out, last, hadBlack, stage, seqP, renderer, frame,
          line, view, camera, camOps, tri, camLast, modeBefore, obj, mesh, term, circle>>

geometryVars == <<line, view, camera, camOps, tri, camLast, modeBefore, obj, mesh, term, circle>>

----------------------------------------------------------------------------
(* Bounds of the model *)

CanvasW == 2
CanvasH == 2
MaxChanged == 2
MaxPixels == 1
MaxMeshes == 2
MaxMeshPixels == 1
MaxFrameCount == 1

\* canvas of the line rasterizer checks
LineW == 4
LineH == 3

\* eye and target of Mat4::look_at are drawn from the points of whole units
\* with coordinates in -GridMax..GridMax
GridMax == 1

\* number of camera operations in a run
MaxCamOps == 3

\* canvas of the triangle fill checks
TriW == 3
TriH == 3

\* number of lines of an OBJ file
MaxLines == 2

\* draw_circle: the largest radius and the canvas
MaxRadius == 4
CircleW == 9
CircleH == 9

----------------------------------------------------------------------------
(* geometry.rs: Color *)

BLACK == <<0, 0, 0>>
RED == <<255, 0, 0>>
CYAN == <<0, 255, 255>>
WHITE == <<255, 255, 255>>
GREEN == <<0, 255, 0>>
BLUE == <<0, 0, 255>>
YELLOW == <<255, 255, 0>>

\* colours written to the canvas directly, and colours of mesh triangles
Palette == {BLACK, CYAN}

MeshColors == {RED, CYAN}

----------------------------------------------------------------------------
(* canvas.rs *)

Coord(x, y) == [x |-> x, y |-> y]

ColoredCoord(x, y, c) == [x |-> x, y |-> y, r |-> c[1], g |-> c[2], b |-> c[3]]

ColorOf(p) == <<p.r, p.g, p.b>>

\* Canvas::new
CanvasNew(w, h) ==
    [width |-> w, height |-> h,
     r |-> [i \in 0..(w * h - 1) |-> 0],
     g |-> [i \in 0..(w * h - 1) |-> 0],
     b |-> [i \in 0..(w * h - 1) |-> 0],
     changed_coords |-> <<>>]

\* the early-return test of set_pixel (and the same test without x >= width)
OutOfRangeNoUpperX(cv, x, y) ==
    x < 0 \/ y < 0 \/ y >= cv.height

OutOfRange(cv, x, y) ==
    x < 0 \/ x >= cv.width \/ y < 0 \/ y >= cv.height

Idx(cv, x, y) == y * cv.width + x

PixelAt(cv, idx) == <<cv.r[idx], cv.g[idx], cv.b[idx]>>

\* Canvas::set_pixel
CanvasSetPixel(cv, x, y, pr, pg, pb) ==
    IF OutOfRange(cv, x, y)
    THEN cv
    ELSE LET idx == Idx(cv, x, y)
         IN  [cv EXCEPT !.r[idx] = pr, !.g[idx] = pg, !.b[idx] = pb,
                        !.changed_coords = Append(@, Coord(x, y))]

\* Canvas::set_pixels: pops the list from its end
RECURSIVE CanvasSetPixels(_, _)
CanvasSetPixels(cv, pixels) ==
    IF pixels = <<>>
    THEN cv
    ELSE LET coord == pixels[Len(pixels)]
         IN  CanvasSetPixels(
                 CanvasSetPixel(cv, coord.x, coord.y, coord.r, coord.g, coord.b),
                 SubSeq(pixels, 1, Len(pixels) - 1))

\* Canvas::clear: the loop over changed_coords, from entry i on
RECURSIVE ClearFrom(_, _)
ClearFrom(cv, i) ==
    IF i > Len(cv.changed_coords)
    THEN cv
    ELSE LET coord == cv.changed_coords[i]
         IN  IF coord.x < 0 \/ coord.x >= cv.width
                \/ coord.y < 0 \/ coord.y >= cv.height
             THEN ClearFrom(cv, i + 1)
             ELSE LET idx == Idx(cv, coord.x, coord.y)
                  IN  ClearFrom([cv EXCEPT !.r[idx] = 0, !.g[idx] = 0, !.b[idx] = 0],
                                i + 1)

ClearSkipFirst(cv) == ClearFrom(cv, 2)

CanvasClear(cv) == ClearFrom(cv, 1)

Token(k, row, col, fg, bg) == [k |-> k, row |-> row, col |-> col, fg |-> fg, bg |-> bg]

\* "\x1b[0m"
ResetToken == Token("reset", 0, 0, BLACK, BLACK)

\* a colour pair that shows the upper pixel in both halves of the cell
CellColorsUpperTwice(cv, row, x) ==
    <<PixelAt(cv, row * 2 * cv.width + x), PixelAt(cv, row * 2 * cv.width + x)>>

\* the colour pair of the terminal cell (row, x)
CellColors(cv, row, x) ==
    LET y_upper == row * 2
        y_lower == row * 2 + 1
        upper == IF y_upper >= 0 /\ y_upper < cv.height
                 THEN PixelAt(cv, y_upper * cv.width + x)
                 ELSE <<0, 0, 0>>
        lower == IF y_lower >= 0 /\ y_lower < cv.height
                 THEN PixelAt(cv, y_lower * cv.width + x)
                 ELSE <<0, 0, 0>>
    IN  <<upper, lower>>

\* Canvas::present, first loop: one cursor move + colours + glyph per coordinate
RECURSIVE PresentFrom(_, _)
PresentFrom(cv, i) ==
    IF i > Len(cv.changed_coords)
    THEN <<>>
    ELSE LET x == cv.changed_coords[i].x
             y == cv.changed_coords[i].y
         IN  IF x >= 0 /\ x < cv.width /\ y >= 0 /\ y < cv.height
             THEN LET row == y \div 2
                      cc == CellColors(cv, row, x)
                  IN  <<Token("at", row + 1, x + 1, cc[1], cc[2])>>
                          \o PresentFrom(cv, i + 1)
             ELSE PresentFrom(cv, i + 1)

\* the predicate of changed_coords.retain
KeepAlways(cv, coord) == TRUE

KeepIfRed(cv, coord) ==
    LET idx == Idx(cv, coord.x, coord.y)
    IN  ~(cv.r[idx] = 0)

Keep(cv, coord) ==
    LET idx == Idx(cv, coord.x, coord.y)
    IN  ~(cv.r[idx] = 0 /\ cv.g[idx] = 0 /\ cv.b[idx] = 0)

\* Vec::retain, from entry i on
RECURSIVE RetainFrom(_, _)
RetainFrom(cv, i) ==
    IF i > Len(cv.changed_coords)
    THEN <<>>
    ELSE IF Keep(cv, cv.changed_coords[i])
         THEN <<cv.changed_coords[i]>> \o RetainFrom(cv, i + 1)
         ELSE RetainFrom(cv, i + 1)

\* Canvas::present: the printed tokens and the canvas afterwards
PresentOutput(cv) == PresentFrom(cv, 1) \o <<ResetToken>>

PresentForgetAll(cv) == [cv EXCEPT !.changed_coords = <<>>]

CanvasPresent(cv) == [cv EXCEPT !.changed_coords = RetainFrom(cv, 1)]

\* Canvas::set_black: clear screen, then every cell row by row
RECURSIVE BlackRow(_, _, _)
BlackRow(cv, row, col) ==
    IF col >= cv.width
    THEN <<Token("resetln", 0, 0, BLACK, BLACK)>>
    ELSE LET cc == CellColors(cv, row, col)
         IN  <<Token("glyph", 0, 0, cc[1], cc[2])>> \o BlackRow(cv, row, col + 1)

RECURSIVE BlackRows(_, _)
BlackRows(cv, row) ==
    IF row >= (cv.height + 1) \div 2
    THEN <<>>
    ELSE BlackRow(cv, row, 0) \o BlackRows(cv, row + 1)

SetBlackOutput(cv) == <<Token("home", 0, 0, BLACK, BLACK)>> \o BlackRows(cv, 0)

\* Canvas::init
CanvasInit(cv) ==
    [cv EXCEPT !.r = [i \in DOMAIN cv.r |-> 0],
               !.g = [i \in DOMAIN cv.g |-> 0],
               !.b = [i \in DOMAIN cv.b |-> 0],
               !.changed_coords = <<>>]

----------------------------------------------------------------------------
(* renderer.rs *)

\* current_fps is kept exact: n frames in d seconds (0.0 is 0 frames in 1 second)
Fps(n, d) == [n |-> n, d |-> d]

\* Renderer::new
RendererNew ==
    [render_mode |-> "Wireframe", show_fps |-> FALSE,
     frame_count |-> 0, current_fps |-> Fps(0, 1)]

\* the loop of Renderer::render over scene.meshes: every mesh appends the pixels
\* its render_wireframe / render_filled call rasterizes to the shared list
RECURSIVE MeshPixels(_)
MeshPixels(meshes) ==
    IF meshes = <<>>
    THEN <<>>
    ELSE Head(meshes) \o MeshPixels(Tail(meshes))

\* Renderer::update_fps, delta whole seconds after last_fps_time
UpdateFps(rd, delta) ==
    LET count == rd.frame_count + 1
    IN  IF delta >= 1
        THEN [rd EXCEPT !.current_fps = Fps(count, delta), !.frame_count = 0]
        ELSE [rd EXCEPT !.frame_count = count]

\* Renderer::render_text as called by render_fps_counter: "FPS: ..." at (2, 2)
FpsText(rd) ==
    [k |-> "text", row |-> 2 + 1, col |-> 2 + 1, fg |-> WHITE, bg |-> rd.current_fps]

\* Renderer::render up to canvas.set_pixels: the canvas that present() is called on
RenderCommit(cv, meshes) == CanvasSetPixels(CanvasClear(cv), MeshPixels(meshes))

\* a toggle that can only switch to Filled
ToggleModeToFilled(mode) == "Filled"

\* Renderer::toggle_render_mode
ToggleMode(mode) == IF mode = "Wireframe" THEN "Filled" ELSE "Wireframe"

----------------------------------------------------------------------------
(* Inputs *)

SeqsUpTo(S, n) == UNION {[1..k -> S] : k \in 0..n}

RECURSIVE CountInRange(_, _)
CountInRange(cv, pixels) ==
    IF pixels = <<>>
    THEN 0
    ELSE (IF OutOfRange(cv, Head(pixels).x, Head(pixels).y) THEN 0 ELSE 1)
             + CountInRange(cv, Tail(pixels))

InRangePixels(colors) ==
    {ColoredCoord(x, y, c) : x \in 0..(canvas.width - 1), y \in 0..(canvas.height - 1),
                             c \in colors}

\* a scene as render() sees it: per mesh, the pixels the mesh rasterizes to
\* (the rasterizers bounds-check before pushing, so all are inside the canvas)
Scenes == SeqsUpTo(SeqsUpTo(InRangePixels(MeshColors), MaxMeshPixels), MaxMeshes)

\* seconds since last_fps_time when update_fps runs
Deltas == {0, 1}

----------------------------------------------------------------------------
(* Bresenham line rasterizer (geometry.rs).  Coordinates are i32; the      *)
(* model's coordinates are far from the i32 limits.                        *)

Abs(n) == IF n < 0 THEN -n ELSE n

Max(a, b) == IF a > b THEN a ELSE b

\* a line that is never treated as steep
SteepNever(x0, y0, x1, y1) == FALSE

\* let steep = (x0 - x1).abs() < (y0 - y1).abs()
Steep(x0, y0, x1, y1) == Abs(x0 - x1) < Abs(y0 - y1)

\* a bounds check that takes column and row 0 for outside
LinePushSkipZero(ln, x, y) ==
    IF ln.steep
    THEN IF y > 0 /\ y < ln.width /\ x > 0 /\ x < ln.height
         THEN <<ColoredCoord(y, x, ln.color)>>
         ELSE <<>>
    ELSE IF x > 0 /\ x < ln.width /\ y > 0 /\ y < ln.height
         THEN <<ColoredCoord(x, y, ln.color)>>
         ELSE <<>>

\* the pixel one iteration pushes, if it passes the bounds check
LinePush(ln, x, y) ==
    IF ln.steep
    THEN IF y >= 0 /\ y < ln.width /\ x >= 0 /\ x < ln.height
         THEN <<ColoredCoord(y, x, ln.color)>>
         ELSE <<>>
    ELSE IF x >= 0 /\ x < ln.width /\ y >= 0 /\ y < ln.height
         THEN <<ColoredCoord(x, y, ln.color)>>
         ELSE <<>>

\* for x in x0..=x1, from iteration x on, with the loop's y and error2
RECURSIVE LineLoop(_, _, _, _)
LineLoop(ln, x, y, error2) ==
    IF x > ln.x1
    THEN <<>>
    ELSE LET e == error2 + ln.derror2
         IN  LinePush(ln, x, y)
                 \o (IF e > ln.dx
                     THEN LineLoop(ln, x + 1,
                                   y + (IF ln.y1 > ln.y0 THEN 1 ELSE -1),
                                   e - ln.dx * 2)
                     ELSE LineLoop(ln, x + 1, y, e))

\* the pixels draw_line appends to the (here empty) list
DrawLine(x0, y0, x1, y1, cv, color) ==
    LET steep == Steep(x0, y0, x1, y1)
        \* if steep { swap(x0, y0); swap(x1, y1) }
        ax0 == IF steep THEN y0 ELSE x0
        ay0 == IF steep THEN x0 ELSE y0
        ax1 == IF steep THEN y1 ELSE x1
        ay1 == IF steep THEN x1 ELSE y1
        \* if x0 > x1 { swap(x0, x1); swap(y0, y1) }
        bx0 == IF ax0 > ax1 THEN ax1 ELSE ax0
        bx1 == IF ax0 > ax1 THEN ax0 ELSE ax1
        by0 == IF ax0 > ax1 THEN ay1 ELSE ay0
        by1 == IF ax0 > ax1 THEN ay0 ELSE ay1
        ln == [steep |-> steep, x1 |-> bx1, y0 |-> by0, y1 |-> by1,
               dx |-> bx1 - bx0, derror2 |-> Abs(by1 - by0) * 2,
               width |-> cv.width, height |-> cv.height, color |-> color]
    IN  LineLoop(ln, bx0, by0, 0)

----------------------------------------------------------------------------
(* Circle rasterizer (geometry.rs) *)

\* plot_circle_points: the eight reflections of (x, y) about the centre, each
\* pushed if it is inside the canvas
RECURSIVE PushInside(_, _, _)
PushInside(points, cv, color) ==
    IF points = <<>>
    THEN <<>>
    ELSE LET px == Head(points)[1]
             py == Head(points)[2]
         IN  (IF px >= 0 /\ px < cv.width /\ py >= 0 /\ py < cv.height
              THEN <<ColoredCoord(px, py, color)>>
              ELSE <<>>)
                 \o PushInside(Tail(points), cv, color)

PlotCirclePoints(x, y, cx, cy, cv, color) ==
    PushInside(<< <<cx + x, cy + y>>, <<cx - x, cy + y>>,
                  <<cx + x, cy - y>>, <<cx - x, cy - y>>,
                  <<cx + y, cy + x>>, <<cx - y, cy + x>>,
                  <<cx + y, cy - x>>, <<cx - y, cy - x>> >>, cv, color)

\* the while loop of draw_circle
RECURSIVE CircleLoop(_, _, _, _, _, _, _)
CircleLoop(x, y, d, cx, cy, cv, color) ==
    IF y >= x
    THEN LET x1 == x + 1
             y1 == IF d > 0 THEN y - 1 ELSE y
             d1 == IF d > 0 THEN d + 4 * (x1 - y1) + 10 ELSE d + 4 * x1 + 6
         IN  PlotCirclePoints(x1, y1, cx, cy, cv, color)
                 \o CircleLoop(x1, y1, d1, cx, cy, cv, color)
    ELSE <<>>

DrawCircle(center_x, center_y, radius, cv, color) ==
    PlotCirclePoints(0, radius, center_x, center_y, cv, color)
        \o CircleLoop(0, radius, 3 - 2 * radius, center_x, center_y, cv, color)

----------------------------------------------------------------------------
(* Vec3 and Mat4 (geometry.rs, matrix.rs).  An f32 is modelled in fixed    *)
(* point: the integer n stands for n / Scale, and every operation rounds   *)
(* its exact result to the nearest representable value, as f32 arithmetic  *)
(* does at its own resolution.                                             *)

\* the integer that stands for 1.0
Scale == 1000

Sign(n) == IF n < 0 THEN -1 ELSE IF n > 0 THEN 1 ELSE 0

\* a / b rounded to the nearest integer, b # 0
RDiv(a, b) == Sign(a) * Sign(b) * ((2 * Abs(a) + Abs(b)) \div (2 * Abs(b)))

\* the largest r in lo..hi with r * r <= n
RECURSIVE SqrtBetween(_, _, _)
SqrtBetween(n, lo, hi) ==
    IF lo >= hi
    THEN lo
    ELSE LET mid == (lo + hi + 1) \div 2
         IN  IF mid * mid <= n
             THEN SqrtBetween(n, mid, hi)
             ELSE SqrtBetween(n, lo, mid - 1)

\* sqrt of n rounded to the nearest integer, 0 <= n < 2^30
Sqrt(n) ==
    LET r == SqrtBetween(n, 0, 32767)
    IN  IF n - r * r > r THEN r + 1 ELSE r

Vec3(x, y, z) == [x |-> x, y |-> y, z |-> z]

\* the vector of whole units (x, y, z)
Units(x, y, z) == Vec3(x * Scale, y * Scale, z * Scale)

Length(v) == Sqrt(v.x * v.x + v.y * v.y + v.z * v.z)

Normalize(v) ==
    LET len == Length(v)
    IN  IF len = 0
        THEN v
        ELSE Vec3(RDiv(v.x * Scale, len), RDiv(v.y * Scale, len), RDiv(v.z * Scale, len))

Dot(a, b) == RDiv(a.x * b.x + a.y * b.y + a.z * b.z, Scale)

Cross(a, b) ==
    Vec3(RDiv(a.y * b.z - a.z * b.y, Scale),
         RDiv(a.z * b.x - a.x * b.z, Scale),
         RDiv(a.x * b.y - a.y * b.x, Scale))

\* m[i][j] with i, j in 0..3, as the code indexes it
Identity == [i \in 0..3 |-> [j \in 0..3 |-> IF i = j THEN Scale ELSE 0]]

Mat4LookAt(eye, center, up) ==
    LET f == Normalize(Vec3(center.x - eye.x, center.y - eye.y, center.z - eye.z))
        s == Normalize(Cross(f, up))
        u == Cross(s, f)
    IN  [Identity EXCEPT ![0][0] = s.x,
                         ![1][0] = s.y,
                         ![2][0] = s.z,
                         ![0][1] = u.x,
                         ![1][1] = u.y,
                         ![2][1] = u.z,
                         ![0][2] = -f.x,
                         ![1][2] = -f.y,
                         ![2][2] = -f.z,
                         ![0][3] = -Dot(s, eye),
                         ![1][3] = -Dot(u, eye),
                         ![2][3] = Dot(f, eye)]

\* one output row of transform_point: m[i][0]*x + m[i][1]*y + m[i][2]*z + m[i][3]
RowTimesPoint(m, i, p) ==
    RDiv(m[i][0] * p.x + m[i][1] * p.y + m[i][2] * p.z, Scale) + m[i][3]

TransformPoint(m, point) ==
    LET x == RowTimesPoint(m, 0, point)
        y == RowTimesPoint(m, 1, point)
        z == RowTimesPoint(m, 2, point)
        w == RowTimesPoint(m, 3, point)
    IN  IF w # 0
        THEN Vec3(RDiv(x * Scale, w), RDiv(y * Scale, w), RDiv(z * Scale, w))
        ELSE Vec3(x, y, z)

----------------------------------------------------------------------------
(* Camera (camera.rs).  Angles are whole degrees; the trigonometric        *)
(* functions are tabulated at that resolution.  The projection parameters  *)
(* (fov, aspect_ratio, near_plane, far_plane) never change orientation or  *)
(* position and are left out.                                              *)

\* sin of 0..90 degrees, in units of 1 / Scale
SinTab ==
    <<   0,   17,   35,   52,   70,   87,  105,  122,  139,  156,
       174,  191,  208,  225,  242,  259,  276,  292,  309,  326,
       342,  358,  375,  391,  407,  423,  438,  454,  469,  485,
       500,  515,  530,  545,  559,  574,  588,  602,  616,  629,
       643,  656,  669,  682,  695,  707,  719,  731,  743,  755,
       766,  777,  788,  799,  809,  819,  829,  839,  848,  857,
       866,  875,  883,  891,  899,  906,  914,  921,  927,  934,
       940,  946,  951,  956,  961,  966,  970,  974,  978,  982,
       985,  988,  990,  993,  995,  996,  998,  999,  999, 1000,
      1000 >>

Sin(deg) ==
    LET d == deg % 360
    IN  IF d <= 90 THEN SinTab[d + 1]
        ELSE IF d <= 180 THEN SinTab[180 - d + 1]
        ELSE IF d <= 270 THEN -SinTab[d - 180 + 1]
        ELSE -SinTab[360 - d + 1]

Cos(deg) == Sin(deg + 90)

\* asin in degrees: the angle of -90..90 whose sine is nearest to v
Asin(v) ==
    Sign(v) * Cardinality({k \in 1..90 : SinTab[k] + SinTab[k + 1] <= 2 * Abs(v)})

\* z.atan2(x) in degrees, in -180..180; atan2(0, 0) = 0
Atan2(z, x) ==
    LET len == Sqrt(x * x + z * z)
        a == IF len = 0 THEN 0 ELSE Asin(RDiv(z * Scale, len))
    IN  IF x >= 0 THEN a
        ELSE IF z >= 0 THEN 180 - a
        ELSE -180 - a

\* 89.0_f32.to_radians(), in degrees
PitchLimit == 89

UpdateVectors(c) ==
    LET forward == Normalize(Vec3(RDiv(Cos(c.yaw) * Cos(c.pitch), Scale),
                                  Sin(c.pitch),
                                  RDiv(Sin(c.yaw) * Cos(c.pitch), Scale)))
        world_up == Units(0, 1, 0)
        right == Normalize(Cross(forward, world_up))
        up == Normalize(Cross(right, forward))
    IN  [c EXCEPT !.forward = forward, !.right = right, !.up = up]

UpdateTarget(c) ==
    [c EXCEPT !.target = Vec3(c.position.x + c.forward.x,
                              c.position.y + c.forward.y,
                              c.position.z + c.forward.z)]

CameraNew ==
    UpdateVectors([position |-> Units(0, 0, 0),
                   target |-> Units(0, 0, -1),
                   up |-> Units(0, 1, 0),
                   forward |-> Units(0, 0, -1),
                   right |-> Units(1, 0, 0),
                   yaw |-> -90,
                   pitch |-> 0])

CameraSetPosition(c, position) == UpdateTarget([c EXCEPT !.position = position])

CameraLookAt(c, target) ==
    LET direction == Normalize(Vec3(target.x - c.position.x,
                                    target.y - c.position.y,
                                    target.z - c.position.z))
    IN  UpdateVectors([c EXCEPT !.target = target,
                                !.yaw = Atan2(direction.z, direction.x),
                                !.pitch = Asin(direction.y)])

\* a move that leaves the target where it was
MoveAlongStaleTarget(c, axis, distance) ==
    [c EXCEPT !.position =
         Vec3(c.position.x + RDiv(axis.x * distance, Scale),
              c.position.y + RDiv(axis.y * distance, Scale),
              c.position.z + RDiv(axis.z * distance, Scale))]

\* position += axis * distance, then update_target
MoveAlong(c, axis, distance) ==
    UpdateTarget([c EXCEPT !.position =
                      Vec3(c.position.x + RDiv(axis.x * distance, Scale),
                           c.position.y + RDiv(axis.y * distance, Scale),
                           c.position.z + RDiv(axis.z * distance, Scale))])

CameraMoveForward(c, distance) == MoveAlong(c, c.forward, distance)

CameraMoveRight(c, distance) == MoveAlong(c, c.right, distance)

CameraMoveUp(c, distance) == MoveAlong(c, c.up, distance)

Clamp(v, lo, hi) == IF v < lo THEN lo ELSE IF v > hi THEN hi ELSE v

CameraRotate(c, yaw_delta, pitch_delta) ==
    UpdateTarget(UpdateVectors(
        [c EXCEPT !.yaw = c.yaw + yaw_delta,
                  !.pitch = Clamp(c.pitch + pitch_delta, -PitchLimit, PitchLimit)]))

----------------------------------------------------------------------------
(* Scanline triangle fill (geometry.rs).  A Vec2 coordinate is the integer *)
(* number of 1/Sub pixels, which an f32 holds exactly; the interpolated     *)
(* edge positions are exact rationals [n, d] with d > 0, in the same unit.  *)

\* coordinate units per pixel
Sub == 16

Vec2(x, y) == [x |-> x, y |-> y]

\* a / b truncated toward zero, b > 0
TruncDiv(a, b) == IF a >= 0 THEN a \div b ELSE -((-a) \div b)

\* v as i32, for a coordinate v
AsI32(v) == TruncDiv(v, Sub)

\* a threshold test that lets through every positive height
BelowTenthOnlyZero(h) == h <= 0

\* h < 0.1, for a height h
BelowTenth(h) == 10 * h < Sub

\* the pixels of scanline y; t holds the sorted vertices
TriSpan(t, y) ==
    LET second_half == y * Sub > t.p1.y \/ t.p1.y = t.p0.y
        segment_height == IF second_half THEN t.p2.y - t.p1.y ELSE t.p1.y - t.p0.y
        from == IF second_half THEN t.p1 ELSE t.p0
        to == IF second_half THEN t.p2 ELSE t.p1
        \* a = p0.x + (p2.x - p0.x) * alpha, alpha = (y - p0.y) / total_height
        a == [n |-> t.p0.x * t.total_height + (t.p2.x - t.p0.x) * (y * Sub - t.p0.y),
              d |-> t.total_height]
        \* b = from.x + (to.x - from.x) * beta, beta = (y - from.y) / segment_height
        b == [n |-> from.x * segment_height + (to.x - from.x) * (y * Sub - from.y),
              d |-> segment_height]
        swap == a.n * b.d > b.n * a.d
        lo == IF swap THEN b ELSE a
        hi == IF swap THEN a ELSE b
        first == TruncDiv(lo.n, lo.d * Sub)
        end == TruncDiv(hi.n, hi.d * Sub)
    IN  IF BelowTenth(segment_height)
        THEN <<>>
        ELSE IF y >= 0 /\ y < t.height
             THEN LET xs == {x \in first..end : x >= 0 /\ x < t.width}
                      least == CHOOSE x \in xs : \A other \in xs : x <= other
                  IN  [i \in 1..Cardinality(xs) |-> ColoredCoord(least + i - 1, y, t.color)]
             ELSE <<>>

\* for y in (p0.y as i32)..=(p2.y as i32), from scanline y on
RECURSIVE TriRows(_, _)
TriRows(t, y) ==
    IF y > AsI32(t.p2.y)
    THEN <<>>
    ELSE TriSpan(t, y) \o TriRows(t, y + 1)

\* the pixels draw_triangle_filled appends to the (here empty) list
DrawTriangleFilled(p0, p1, p2, cv, color) ==
    LET s1 == IF p0.y > p1.y THEN <<p1, p0, p2>> ELSE <<p0, p1, p2>>
        s2 == IF s1[2].y > s1[3].y THEN <<s1[1], s1[3], s1[2]>> ELSE s1
        s3 == IF s2[1].y > s2[2].y THEN <<s2[2], s2[1], s2[3]>> ELSE s2
        total_height == s3[3].y - s3[1].y
        t == [p0 |-> s3[1], p1 |-> s3[2], p2 |-> s3[3], total_height |-> total_height,
              width |-> cv.width, height |-> cv.height, color |-> color]
    IN  IF BelowTenth(total_height)
        THEN <<>>
        ELSE TriRows(t, AsI32(t.p0.y))

----------------------------------------------------------------------------

(* The OBJ loader (main.rs).  A whitespace-separated token is a record     *)
(* [kind, val, slash]: kind "int" for an unsigned decimal integer such as  *)
(* 2, "float" for a decimal such as 1.5, "bad" for anything else such as   *)
(* x; val is the number in units of 1 / Scale; slash tells whether the     *)
(* token goes on with /... as in 2/1.                                      *)

Tok(kind, val, slash) == [kind |-> kind, val |-> val, slash |-> slash]

\* str::parse::<f32>() of a whole token
ParseF32(tok) ==
    IF tok.kind \in {"int", "float"} /\ ~tok.slash
    THEN [ok |-> TRUE, val |-> tok.val]
    ELSE [ok |-> FALSE, val |-> 0]

\* unwrap_or(0.0)
UnwrapOrZero(parsed) == IF parsed.ok THEN parsed.val ELSE 0

\* p.split('/').next().unwrap().parse::<usize>() of a token
ParseUsize(tok) ==
    IF tok.kind = "int"
    THEN [ok |-> TRUE, val |-> tok.val \div Scale]
    ELSE [ok |-> FALSE, val |-> 0]

\* the vertices of a "v x y z" line appended
ObjVertexLine(o, parts) ==
    IF Len(parts) = 3
    THEN [o EXCEPT !.vertices =
              Append(@, Vec3(UnwrapOrZero(ParseF32(parts[1])),
                             UnwrapOrZero(ParseF32(parts[2])),
                             UnwrapOrZero(ParseF32(parts[3]))))]
    ELSE o

\* the states an "f i0 i1 i2" line can lead to: unwrap() panics on a token
\* that is no usize; n - 1 on n = 0 panics in a build with overflow checks
\* and wraps to usize::MAX, written -1 here, in a build without
ObjFaceLine(o, parts) ==
    IF Len(parts) # 3
    THEN {o}
    ELSE LET parsed == [i \in 1..3 |-> ParseUsize(parts[i])]
             panicked == [o EXCEPT !.status = "panicked"]
             pushed == [o EXCEPT !.triangles =
                            Append(@, [vertices |-> [i \in 1..3 |-> parsed[i].val - 1],
                                       color |-> WHITE])]
         IN  IF \E i \in 1..3 : ~parsed[i].ok
             THEN {panicked}
             ELSE IF \E i \in 1..3 : parsed[i].val = 0
                  THEN {panicked, pushed}
                  ELSE {pushed}

----------------------------------------------------------------------------

(* Mat4 constructors, Transform and Mesh rendering (matrix.rs, mesh.rs).   *)
(* Screen coordinates leave project_to_screen in units of 1 / Scale and    *)
(* enter the rasterizers in units of 1 / Sub.                              *)

Translation(x, y, z) == [Identity EXCEPT ![0][3] = x, ![1][3] = y, ![2][3] = z]

RotationX(angle) ==
    [Identity EXCEPT ![1][1] = Cos(angle),
                     ![1][2] = -Sin(angle),
                     ![2][1] = Sin(angle),
                     ![2][2] = Cos(angle)]

RotationY(angle) ==
    [Identity EXCEPT ![0][0] = Cos(angle),
                     ![0][2] = Sin(angle),
                     ![2][0] = -Sin(angle),
                     ![2][2] = Cos(angle)]

RotationZ(angle) ==
    [Identity EXCEPT ![0][0] = Cos(angle),
                     ![0][1] = -Sin(angle),
                     ![1][0] = Sin(angle),
                     ![1][1] = Cos(angle)]

ScaleMatrix(x, y, z) == [Identity EXCEPT ![0][0] = x, ![1][1] = y, ![2][2] = z]

\* the sum over k of self.m[i][k] * other.m[k][j]
MultiplyEntry(a, b, i, j) ==
    RDiv(a[i][0] * b[0][j] + a[i][1] * b[1][j] + a[i][2] * b[2][j] + a[i][3] * b[3][j],
         Scale)

MultiplyRow(a, b, i) ==
    [Identity[0] EXCEPT ![0] = MultiplyEntry(a, b, i, 0),
                        ![1] = MultiplyEntry(a, b, i, 1),
                        ![2] = MultiplyEntry(a, b, i, 2),
                        ![3] = MultiplyEntry(a, b, i, 3)]

Multiply(a, b) ==
    [Identity EXCEPT ![0] = MultiplyRow(a, b, 0),
                     ![1] = MultiplyRow(a, b, 1),
                     ![2] = MultiplyRow(a, b, 2),
                     ![3] = MultiplyRow(a, b, 3)]

TransformNew == [position |-> Units(0, 0, 0), rotation |-> Vec3(0, 0, 0), scale |-> Units(1, 1, 1)]

\* Transform::to_matrix; rotation holds degrees
ToMatrix(tf) ==
    Multiply(Translation(tf.position.x, tf.position.y, tf.position.z),
             Multiply(RotationZ(tf.rotation.z),
                      Multiply(RotationY(tf.rotation.y),
                               Multiply(RotationX(tf.rotation.x),
                                        ScaleMatrix(tf.scale.x, tf.scale.y, tf.scale.z)))))

\* an f32 screen coordinate as a coordinate of the rasterizers
ToSub(v) == RDiv(v * Sub, Scale)

ProjectToScreen(m, point, width, height) ==
    LET transformed == TransformPoint(m, point)
    IN  Vec2(ToSub(RDiv((transformed.x + Scale) * width, 2)),
             ToSub(RDiv((Scale - transformed.y) * height, 2)))

DrawTriangleWireframe(p0, p1, p2, cv, color) ==
    DrawLine(AsI32(p0.x), AsI32(p0.y), AsI32(p1.x), AsI32(p1.y), cv, color)
        \o DrawLine(AsI32(p1.x), AsI32(p1.y), AsI32(p2.x), AsI32(p2.y), cv, color)
        \o DrawLine(AsI32(p2.x), AsI32(p2.y), AsI32(p0.x), AsI32(p0.y), cv, color)

Vertex(position) == [position |-> position]

Triangle(a, b, c, color) == [vertices |-> <<a, b, c>>, color |-> color]

MeshNew == [vertices |-> <<>>, triangles |-> <<>>, transform |-> TransformNew]

\* Mesh::create_plane; size in units of 1 / Scale
CreatePlane(size) ==
    LET s == RDiv(size, 2)
    IN  [vertices |-> << Vertex(Vec3(-s, 0, -s)), Vertex(Vec3(s, 0, -s)),
                        Vertex(Vec3(s, 0, s)), Vertex(Vec3(-s, 0, s)) >>,
         triangles |-> << Triangle(0, 1, 2, WHITE), Triangle(0, 2, 3, WHITE) >>,
         transform |-> TransformNew]

\* Mesh::create_pyramid
CreatePyramid(size) ==
    LET s == RDiv(size, 2)
    IN  [vertices |-> << Vertex(Vec3(-s, -s, -s)), Vertex(Vec3(s, -s, -s)),
                        Vertex(Vec3(s, -s, s)), Vertex(Vec3(-s, -s, s)),
                        Vertex(Vec3(0, s, 0)) >>,
         triangles |-> << Triangle(0, 2, 1, RED), Triangle(0, 3, 2, RED),
                         Triangle(0, 1, 4, GREEN), Triangle(1, 2, 4, BLUE),
                         Triangle(2, 3, 4, YELLOW), Triangle(3, 0, 4, CYAN) >>,
         transform |-> TransformNew]

\* the screen positions of a triangle's vertices
Projected(m, triangle, cv, mvp) ==
    [i \in 1..3 |-> ProjectToScreen(mvp, m.vertices[triangle.vertices[i] + 1].position,
                                    cv.width, cv.height)]

\* one iteration of render_wireframe's loop
WireframePixels(m, triangle, cv, mvp) ==
    LET p == Projected(m, triangle, cv, mvp)
    IN  DrawTriangleWireframe(p[1], p[2], p[3], cv, triangle.color)

\* a cull test on the vertex as the camera sees it
CullPointInView(model_matrix, mvp, position) == TransformPoint(mvp, position)

\* world_v = model_matrix.transform_point(v.position)
CullPoint(model_matrix, mvp, position) == TransformPoint(model_matrix, position)

\* normal.dot(&view_dir) of a triangle, view_dir = (0, 0, 1)
FacingDot(m, triangle, model_matrix, mvp) ==
    LET w == [i \in 1..3 |->
                 CullPoint(model_matrix, mvp, m.vertices[triangle.vertices[i] + 1].position)]
        edge1 == Vec3(w[2].x - w[1].x, w[2].y - w[1].y, w[2].z - w[1].z)
        edge2 == Vec3(w[3].x - w[1].x, w[3].y - w[1].y, w[3].z - w[1].z)
    IN  Dot(Cross(edge1, edge2), Units(0, 0, 1))

\* one iteration of render_filled's loop
FilledPixels(m, triangle, cv, model_matrix, mvp) ==
    IF FacingDot(m, triangle, model_matrix, mvp) < 0
    THEN <<>>
    ELSE LET p == Projected(m, triangle, cv, mvp)
         IN  DrawTriangleFilled(p[1], p[2], p[3], cv, triangle.color)

\* what each triangle of the mesh appends to the pixel list, in order
RenderWireframe(m, cv, view_projection) ==
    LET mvp == Multiply(view_projection, ToMatrix(m.transform))
    IN  [i \in 1..Len(m.triangles) |-> WireframePixels(m, m.triangles[i], cv, mvp)]

RenderFilled(m, cv, view_projection) ==
    LET model_matrix == ToMatrix(m.transform)
        mvp == Multiply(view_projection, model_matrix)
    IN  [i \in 1..Len(m.triangles) |->
            FilledPixels(m, m.triangles[i], cv, model_matrix, mvp)]

----------------------------------------------------------------------------

(* The terminal the canvas prints to (canvas.rs), as far as the printed    *)
(* tokens determine it: a grid of cells, each showing the foreground and   *)
(* background colour of its half-block glyph, and a cursor.  Rows and      *)
(* columns are 1-based as in the cursor escape.                            *)

\* a cell that "\x1b[2J" erased and nothing has painted since
Erased == << <<-1, -1, -1>>, <<-1, -1, -1>> >>

TermRows(cv) == 1..((cv.height + 1) \div 2)

TermCols(cv) == 1..cv.width

\* the screen before anything is printed
TermNew(cv) ==
    [cells |-> [row \in TermRows(cv) |-> [col \in TermCols(cv) |-> Erased]],
     row |-> 1, col |-> 1, painted |-> FALSE]

\* the glyph with its two colours at the cursor; the cursor moves one column on
PutGlyph(t, fg, bg) ==
    IF t.row \in DOMAIN t.cells /\ t.col \in DOMAIN t.cells[t.row]
    THEN [t EXCEPT !.cells[t.row][t.col] = <<fg, bg>>, !.col = @ + 1]
    ELSE [t EXCEPT !.col = @ + 1]

\* the effect of one printed token
Feed(t, token) ==
    IF token.k = "home"
    THEN [t EXCEPT !.cells = [row \in DOMAIN t.cells |->
                                 [col \in DOMAIN t.cells[row] |-> Erased]],
                   !.row = 1, !.col = 1, !.painted = TRUE]
    ELSE IF token.k = "glyph"
    THEN PutGlyph(t, token.fg, token.bg)
    ELSE IF token.k = "resetln"
    THEN [t EXCEPT !.row = @ + 1, !.col = 1]
    ELSE IF token.k = "at"
    THEN PutGlyph([t EXCEPT !.row = token.row, !.col = token.col], token.fg, token.bg)
    ELSE t

RECURSIVE FeedAll(_, _)
FeedAll(t, tokens) ==
    IF tokens = <<>>
    THEN t
    ELSE FeedAll(Feed(t, Head(tokens)), Tail(tokens))

----------------------------------------------------------------------------
(* Inputs of the camera and matrix operations *)

Grid ==
    {Units(x, y, z) : x \in -GridMax..GridMax, y \in -GridMax..GridMax,
                      z \in -GridMax..GridMax}

\* positions and targets handed to the camera
CameraPoints == {Units(0, 0, 0), Units(0, 1, 0), Units(1, 0, -1), Units(-1, -1, 0)}

\* signed distances of the move operations
Distances == {-Scale, Scale}

\* yaw_delta and pitch_delta of rotate, in degrees
YawDeltas == {-90, 90}

PitchDeltas == {-60, 60}

----------------------------------------------------------------------------
(* Bookkeeping of the checks, no program state *)

NoPixel == ColoredCoord(0, 0, BLACK)

NoFrame ==
    [rendered |-> FALSE, meshes |-> <<>>, walked |-> 0, written |-> 0, prevWritten |-> 0]

NoLine ==
    [x0 |-> 0, y0 |-> 0, x1 |-> 0, y1 |-> 0, drawn |-> FALSE, pixels |-> <<>>]

NoView ==
    [eye |-> Units(0, 0, 0), center |-> Units(0, 0, 0), up |-> Units(0, 1, 0),
     done |-> FALSE, p |-> Units(0, 0, 0)]

CamOp(op, distance) == [op |-> op, distance |-> distance]

NoCamOp == CamOp("new", 0)

NoObj == [status |-> "closed", read |-> 0, vertices |-> <<>>, triangles |-> <<>>]

NoTri ==
    [p0 |-> Vec2(0, 0), p1 |-> Vec2(0, 0), p2 |-> Vec2(0, 0), drawn |-> FALSE, pixels |-> <<>>]

\* a mesh not yet rendered
Unrendered(m) ==
    [vertices |-> m.vertices, triangles |-> m.triangles, transform |-> m.transform,
     mode |-> "none", view_projection |-> Identity, parts |-> <<>>]

NoMesh == Unrendered(MeshNew)

NoCircle == [center_x |-> 0, center_y |-> 0, radius |-> 0, drawn |-> FALSE, pixels |-> <<>>]

\* no terminal
NoTerm == [cells |-> <<>>, row |-> 1, col |-> 1, painted |-> FALSE]

----------------------------------------------------------------------------
(* Canvas operations as actions *)

SetPixel(x, y, c) ==
    /\ OutOfRange(canvas, x, y) \/ Len(canvas.changed_coords) < MaxChanged
    /\ canvas' = CanvasSetPixel(canvas, x, y, c[1], c[2], c[3])
    /\ out' = <<>>

SetPixels(pixels) ==
    /\ Len(canvas.changed_coords) + CountInRange(canvas, pixels) <= MaxChanged
    /\ canvas' = CanvasSetPixels(canvas, pixels)
    /\ out' = <<>>

Clear ==
    /\ canvas' = CanvasClear(canvas)
    /\ out' = <<>>

Present ==
    /\ canvas' = CanvasPresent(canvas)
    /\ out' = PresentOutput(canvas)

CanvasInitOp ==
    /\ canvas' = CanvasInit(canvas)
    /\ out' = SetBlackOutput(CanvasInit(canvas))

(* Renderer operations as actions *)

Render(meshes, delta) ==
    LET committed == RenderCommit(canvas, meshes)
        updated == UpdateFps(renderer, delta)
    IN  /\ Len(canvas.changed_coords) + Len(MeshPixels(meshes)) <= MaxChanged
        /\ delta = 0 => renderer.frame_count < MaxFrameCount
        /\ renderer' = updated
        /\ canvas' = CanvasPresent(committed)
        /\ out' = (IF renderer.show_fps THEN <<FpsText(updated)>> ELSE <<>>)
                      \o PresentOutput(committed)
        /\ frame' = [rendered |-> TRUE, meshes |-> meshes,
                     walked |-> Len(committed.changed_coords),
                     written |-> Len(MeshPixels(meshes)),
                     prevWritten |-> frame.written]

ToggleRenderMode ==
    /\ renderer' = [renderer EXCEPT !.render_mode = ToggleMode(@)]
    /\ UNCHANGED <<canvas, out, frame>>

ToggleFpsDisplay ==
    /\ renderer' = [renderer EXCEPT !.show_fps = ~@]
    /\ UNCHANGED <<canvas, out, frame>>

----------------------------------------------------------------------------
(* Spec: the canvas driven through its public operations *)

\* nothing printed, no operation run, a new renderer
CanvasIdle ==
    /\ out = <<>>
    /\ last = "new"
    /\ hadBlack = FALSE
    /\ stage = 0
    /\ seqP = NoPixel
    /\ renderer = RendererNew
    /\ frame = NoFrame

Init ==
    /\ \E h \in {CanvasH - 1, CanvasH} : canvas = CanvasNew(CanvasW, h)
    /\ CanvasIdle
    /\ line = NoLine
    /\ view = NoView
    /\ camera = CameraNew
    /\ camOps = 0
    /\ tri = NoTri
    /\ camLast = NoCamOp
    /\ modeBefore = "Wireframe"
    /\ obj = NoObj
    /\ mesh = NoMesh
    /\ term = NoTerm
    /\ circle = NoCircle

Next ==
    \/ /\ \E x \in -1..canvas.width, y \in -1..canvas.height, c \in Palette :
              /\ SetPixel(x, y, c)
              /\ last' = IF x >= 0 /\ x < canvas.width /\ y >= 0 /\ y < canvas.height
                         THEN "set_pixel"
                         ELSE "set_pixel dropped"
       /\ hadBlack' = FALSE
       /\ UNCHANGED <<stage, seqP, renderer, frame, geometryVars>>
    \/ /\ \E pixels \in SeqsUpTo(InRangePixels(Palette), MaxPixels) : SetPixels(pixels)
       /\ last' = "set_pixels"
       /\ hadBlack' = FALSE
       /\ UNCHANGED <<stage, seqP, renderer, frame, geometryVars>>
    \/ /\ Clear
       /\ last' = "clear"
       /\ hadBlack' = FALSE
       /\ UNCHANGED <<stage, seqP, renderer, frame, geometryVars>>
    \/ /\ Present
       /\ last' = IF last \in {"present", "present again"}
                  THEN "present again"
                  ELSE "present"
       /\ hadBlack' = \E i \in 1..Len(canvas.changed_coords) :
                          LET at == canvas.changed_coords[i].y * canvas.width
                                        + canvas.changed_coords[i].x
                          IN  canvas.r[at] = 0 /\ canvas.g[at] = 0 /\ canvas.b[at] = 0
       /\ UNCHANGED <<stage, seqP, renderer, frame, geometryVars>>
    \/ /\ CanvasInitOp
       /\ last' = "init"
       /\ hadBlack' = FALSE
       /\ UNCHANGED <<stage, seqP, renderer, frame, geometryVars>>

Spec == Init /\ [][Next]_vars

----------------------------------------------------------------------------
(* SpecSeq: any canvas operations, then the sequence                       *)
(* set_pixels([P]); present(); clear(); present()                          *)

NextSeq ==
    \/ /\ stage = 0
       /\ \/ \E x \in -1..canvas.width, y \in -1..canvas.height, c \in Palette :
                 SetPixel(x, y, c)
          \/ Clear
          \/ Present
          \/ CanvasInitOp
       /\ UNCHANGED <<last, hadBlack, stage, seqP, renderer, frame, geometryVars>>
    \/ /\ stage = 0
       /\ \E p \in InRangePixels(Palette) :
              SetPixels(<<p>>) /\ seqP' = p
       /\ stage' = 1
       /\ UNCHANGED <<last, hadBlack, renderer, frame, geometryVars>>
    \/ /\ stage \in {1, 3}
       /\ Present
       /\ stage' = stage + 1
       /\ UNCHANGED <<last, hadBlack, seqP, renderer, frame, geometryVars>>
    \/ /\ stage = 2
       /\ Clear
       /\ stage' = 3
       /\ UNCHANGED <<last, hadBlack, seqP, renderer, frame, geometryVars>>

SpecSeq == Init /\ [][NextSeq]_vars

----------------------------------------------------------------------------
(* SpecEmpty: a scene with zero meshes rendered on a canvas in any state   *)
(* its operations can bring it to                                          *)

NextEmpty ==
    \/ /\ \E delta \in Deltas : Render(<<>>, delta)
       /\ UNCHANGED <<last, hadBlack, stage, seqP, geometryVars>>
    \/ /\ ToggleFpsDisplay
       /\ UNCHANGED <<last, hadBlack, stage, seqP, geometryVars>>
    \/ /\ \E x \in 0..(canvas.width - 1), y \in 0..(canvas.height - 1), c \in Palette :
              SetPixel(x, y, c)
       /\ frame' = NoFrame
       /\ UNCHANGED <<last, hadBlack, stage, seqP, renderer, geometryVars>>
    \/ /\ Clear
       /\ frame' = NoFrame
       /\ UNCHANGED <<last, hadBlack, stage, seqP, renderer, geometryVars>>
    \/ /\ Present
       /\ frame' = NoFrame
       /\ UNCHANGED <<last, hadBlack, stage, seqP, renderer, geometryVars>>
    \/ /\ CanvasInitOp
       /\ frame' = NoFrame
       /\ UNCHANGED <<last, hadBlack, stage, seqP, renderer, geometryVars>>

SpecEmpty == Init /\ [][NextEmpty]_vars

----------------------------------------------------------------------------
(* SpecFrames: nothing but frames, as the control loop renders them *)

NextFrames ==
    \/ /\ \E meshes \in Scenes, delta \in Deltas : Render(meshes, delta)
       /\ UNCHANGED <<last, hadBlack, stage, seqP, geometryVars>>
    \/ /\ ToggleRenderMode
       /\ UNCHANGED <<last, hadBlack, stage, seqP, geometryVars>>

SpecFrames == Init /\ [][NextFrames]_vars

----------------------------------------------------------------------------
(* SpecRenderer: a renderer driven through render and its two toggles *)

\* the empty scene and the scenes of one mesh that emits the pixel (0, 0)
SmallScenes == {<<>>} \cup {<<<<ColoredCoord(0, 0, c)>>>> : c \in MeshColors}

NextRenderer ==
    \/ /\ \E meshes \in SmallScenes, delta \in Deltas : Render(meshes, delta)
       /\ last' = "render"
       /\ modeBefore' = renderer.render_mode
       /\ UNCHANGED <<hadBlack, stage, seqP, line, view, camera, camOps, tri, camLast, obj, mesh, term, circle>>
    \/ /\ ToggleRenderMode
       /\ last' = "toggle_render_mode"
       /\ modeBefore' = renderer.render_mode
       /\ UNCHANGED <<hadBlack, stage, seqP, line, view, camera, camOps, tri, camLast, obj, mesh, term, circle>>
    \/ /\ ToggleFpsDisplay
       /\ last' = "toggle_fps_display"
       /\ modeBefore' = renderer.render_mode
       /\ UNCHANGED <<hadBlack, stage, seqP, line, view, camera, camOps, tri, camLast, obj, mesh, term, circle>>

SpecRenderer == Init /\ [][NextRenderer]_vars

----------------------------------------------------------------------------
(* SpecMixed: the canvas driven through its public operations and through *)
(* frames of the renderer, in any order; the frame record is kept between  *)
(* consecutive frames only                                                 *)

\* here every frame is rendered a whole second after last_fps_time
FrameSeconds == 1

\* the scenes of zero meshes and of one mesh that emits one pixel
OnePixelScenes == {<<>>} \cup {<<<<p>>>> : p \in InRangePixels(MeshColors)}

NextMixed ==
    \/ /\ \E x \in -1..canvas.width, y \in -1..canvas.height, c \in Palette :
              SetPixel(x, y, c)
       /\ last' = "set_pixel"
       /\ frame' = NoFrame
       /\ UNCHANGED <<hadBlack, stage, seqP, renderer, geometryVars>>
    \/ /\ \E pixels \in SeqsUpTo(InRangePixels(Palette), MaxPixels) : SetPixels(pixels)
       /\ last' = "set_pixels"
       /\ frame' = NoFrame
       /\ UNCHANGED <<hadBlack, stage, seqP, renderer, geometryVars>>
    \/ /\ Clear
       /\ last' = "clear"
       /\ frame' = NoFrame
       /\ UNCHANGED <<hadBlack, stage, seqP, renderer, geometryVars>>
    \/ /\ Present
       /\ last' = "present"
       /\ frame' = NoFrame
       /\ UNCHANGED <<hadBlack, stage, seqP, renderer, geometryVars>>
    \/ /\ CanvasInitOp
       /\ last' = "init"
       /\ frame' = NoFrame
       /\ UNCHANGED <<hadBlack, stage, seqP, renderer, geometryVars>>
    \/ /\ \E meshes \in OnePixelScenes : Render(meshes, FrameSeconds)
       /\ last' = "render"
       /\ UNCHANGED <<hadBlack, stage, seqP, geometryVars>>

SpecMixed == Init /\ [][NextMixed]_vars

----------------------------------------------------------------------------
(* SpecTerm: the canvas driven through its public operations, printing to  *)
(* a terminal                                                              *)

InitTerm ==
    /\ \E h \in {CanvasH - 1, CanvasH} : canvas = CanvasNew(CanvasW, h)
    /\ CanvasIdle
    /\ line = NoLine
    /\ view = NoView
    /\ camera = CameraNew
    /\ camOps = 0
    /\ tri = NoTri
    /\ camLast = NoCamOp
    /\ modeBefore = "Wireframe"
    /\ obj = NoObj
    /\ mesh = NoMesh
    /\ term = TermNew(canvas)
    /\ circle = NoCircle

TermIdle == <<hadBlack, stage, seqP, renderer, frame, line, view, camera, camOps, tri,
              camLast, modeBefore, obj, mesh, circle>>

NextTerm ==
    \/ /\ \E x \in -1..canvas.width, y \in -1..canvas.height, c \in Palette :
              SetPixel(x, y, c)
       /\ last' = "set_pixel"
       /\ term' = FeedAll(term, out')
       /\ UNCHANGED TermIdle
    \/ /\ \E pixels \in SeqsUpTo(InRangePixels(Palette), MaxPixels) : SetPixels(pixels)
       /\ last' = "set_pixels"
       /\ term' = FeedAll(term, out')
       /\ UNCHANGED TermIdle
    \/ /\ Clear
       /\ last' = "clear"
       /\ term' = FeedAll(term, out')
       /\ UNCHANGED TermIdle
    \/ /\ Present
       /\ last' = "present"
       /\ term' = FeedAll(term, out')
       /\ UNCHANGED TermIdle
    \/ /\ CanvasInitOp
       /\ last' = "init"
       /\ term' = FeedAll(term, out')
       /\ UNCHANGED TermIdle

SpecTerm == InitTerm /\ [][NextTerm]_vars

----------------------------------------------------------------------------
(* SpecLine: draw_line applied to a pair of endpoints on, or one pixel     *)
(* outside, a LineW x LineH canvas                                         *)

InitLine ==
    /\ canvas = CanvasNew(LineW, LineH)
    /\ CanvasIdle
    /\ \E x0 \in -1..LineW, y0 \in -1..LineH, x1 \in -1..LineW, y1 \in -1..LineH :
           line = [x0 |-> x0, y0 |-> y0, x1 |-> x1, y1 |-> y1,
                   drawn |-> FALSE, pixels |-> <<>>]
    /\ view = NoView
    /\ camera = CameraNew
    /\ camOps = 0
    /\ tri = NoTri
    /\ camLast = NoCamOp
    /\ modeBefore = "Wireframe"
    /\ obj = NoObj
    /\ mesh = NoMesh
    /\ term = NoTerm
    /\ circle = NoCircle

DrawLineOp ==
    /\ ~line.drawn
    /\ \E color \in MeshColors :
           line' = [line EXCEPT !.drawn = TRUE,
                                !.pixels = DrawLine(line.x0, line.y0, line.x1, line.y1,
                                                    canvas, color)]
    /\ UNCHANGED <<canvas, out, last, hadBlack, stage, seqP, renderer, frame,
                   view, camera, camOps, tri, camLast, modeBefore, obj, mesh, term, circle>>

NextLine == DrawLineOp

SpecLine == InitLine /\ [][NextLine]_vars

----------------------------------------------------------------------------
(* SpecLookAt: Mat4::look_at(eye, target, up).transform_point(target) for  *)
(* eye and target on the grid and the default up vector                    *)

InitLookAt ==
    /\ canvas = CanvasNew(CanvasW, CanvasH)
    /\ CanvasIdle
    /\ line = NoLine
    /\ \E eye \in Grid, center \in Grid :
           view = [eye |-> eye, center |-> center, up |-> Units(0, 1, 0),
                   done |-> FALSE, p |-> Units(0, 0, 0)]
    /\ camera = CameraNew
    /\ camOps = 0
    /\ tri = NoTri
    /\ camLast = NoCamOp
    /\ modeBefore = "Wireframe"
    /\ obj = NoObj
    /\ mesh = NoMesh
    /\ term = NoTerm
    /\ circle = NoCircle

ApplyLookAt ==
    /\ ~view.done
    /\ view' = [view EXCEPT !.done = TRUE,
                            !.p = TransformPoint(Mat4LookAt(view.eye, view.center, view.up),
                                                 view.center)]
    /\ UNCHANGED <<canvas, out, last, hadBlack, stage, seqP, renderer, frame,
                   line, camera, camOps, tri, camLast, modeBefore, obj, mesh, term, circle>>

NextLookAt == ApplyLookAt

SpecLookAt == InitLookAt /\ [][NextLookAt]_vars

----------------------------------------------------------------------------
(* SpecCamera: a camera driven through its operations *)

CameraStep(c) ==
    /\ camOps < MaxCamOps
    /\ camera' = c
    /\ camOps' = camOps + 1
    /\ UNCHANGED <<canvas, out, last, hadBlack, stage, seqP, renderer, frame,
                   line, view, tri, modeBefore, obj, mesh, term, circle>>

SetPosition(position) == CameraStep(CameraSetPosition(camera, position))

LookAt(target) == CameraStep(CameraLookAt(camera, target))

MoveForward(distance) == CameraStep(CameraMoveForward(camera, distance))

MoveRight(distance) == CameraStep(CameraMoveRight(camera, distance))

MoveUp(distance) == CameraStep(CameraMoveUp(camera, distance))

Rotate(yaw_delta, pitch_delta) == CameraStep(CameraRotate(camera, yaw_delta, pitch_delta))

NextCamera ==
    \/ \E position \in CameraPoints :
           SetPosition(position) /\ camLast' = CamOp("set_position", 0)
    \/ \E target \in CameraPoints :
           LookAt(target) /\ camLast' = CamOp("look_at", 0)
    \/ \E distance \in Distances :
           MoveForward(distance) /\ camLast' = CamOp("move_forward", distance)
    \/ \E distance \in Distances :
           MoveRight(distance) /\ camLast' = CamOp("move_right", distance)
    \/ \E distance \in Distances :
           MoveUp(distance) /\ camLast' = CamOp("move_up", distance)
    \/ \E yaw_delta \in YawDeltas, pitch_delta \in PitchDeltas :
           Rotate(yaw_delta, pitch_delta) /\ camLast' = CamOp("rotate", 0)

SpecCamera == Init /\ [][NextCamera]_vars

----------------------------------------------------------------------------
(* SpecTri: draw_triangle_filled applied to three vertices inside a        *)
(* TriW x TriH canvas; x is a whole pixel, y a whole pixel or 1/Sub below   *)
(* one                                                                      *)

TriPoints == {Vec2(x * Sub, y * Sub + e) : x \in 0..(TriW - 1), y \in 0..(TriH - 1), e \in {0, 1}}

InitTri ==
    /\ canvas = CanvasNew(TriW, TriH)
    /\ CanvasIdle
    /\ line = NoLine
    /\ view = NoView
    /\ camera = CameraNew
    /\ camOps = 0
    /\ tri \in {[p0 |-> p0, p1 |-> p1, p2 |-> p2, drawn |-> FALSE, pixels |-> <<>>] :
                    p0 \in TriPoints, p1 \in TriPoints, p2 \in TriPoints}
    /\ camLast = NoCamOp
    /\ modeBefore = "Wireframe"
    /\ obj = NoObj
    /\ mesh = NoMesh
    /\ term = NoTerm
    /\ circle = NoCircle

DrawTriangleOp ==
    /\ ~tri.drawn
    /\ \E color \in MeshColors :
           tri' = [tri EXCEPT !.drawn = TRUE,
                              !.pixels = DrawTriangleFilled(tri.p0, tri.p1, tri.p2,
                                                            canvas, color)]
    /\ UNCHANGED <<canvas, out, last, hadBlack, stage, seqP, renderer, frame,
                   line, view, camera, camOps, camLast, modeBefore, obj, mesh, term, circle>>

NextTri == DrawTriangleOp

SpecTri == InitTri /\ [][NextTri]_vars

----------------------------------------------------------------------------
(* SpecObj: Mesh::from_obj_file reading a file of at most MaxLines lines, *)
(* line by line                                                            *)

\* the tokens 1, 0, 2/1, 1.5 and x
Tokens ==
    {Tok("int", Scale, FALSE), Tok("int", 0, FALSE), Tok("int", 2 * Scale, TRUE),
     Tok("float", Scale + Scale \div 2, FALSE), Tok("bad", 0, FALSE)}

\* the token lists of a line: three tokens, or too few
TokenLists == [1..3 -> Tokens] \cup {<<>>, <<Tok("int", Scale, FALSE)>>}

\* File::open(filename)?
OpenFile ==
    /\ obj.status = "closed"
    /\ \E status \in {"reading", "err"} : obj' = [obj EXCEPT !.status = status]
    /\ UNCHANGED <<canvas, out, last, hadBlack, stage, seqP, renderer, frame,
                   line, view, camera, camOps, tri, camLast, modeBefore, mesh, term, circle>>

\* one iteration of for line in reader.lines(), on a line that starts with "v "
ReadVertexLine(parts) ==
    /\ obj.status = "reading"
    /\ obj.read < MaxLines
    /\ obj' = [ObjVertexLine(obj, parts) EXCEPT !.read = @ + 1]
    /\ UNCHANGED <<canvas, out, last, hadBlack, stage, seqP, renderer, frame,
                   line, view, camera, camOps, tri, camLast, modeBefore, mesh, term, circle>>

\* the same on a line that starts with "f "
ReadFaceLine(parts) ==
    /\ obj.status = "reading"
    /\ obj.read < MaxLines
    /\ \E o \in ObjFaceLine(obj, parts) : obj' = [o EXCEPT !.read = @ + 1]
    /\ UNCHANGED <<canvas, out, last, hadBlack, stage, seqP, renderer, frame,
                   line, view, camera, camOps, tri, camLast, modeBefore, mesh, term, circle>>

\* the same on any other line, or a line that cannot be read (line?)
ReadOtherLine ==
    /\ obj.status = "reading"
    /\ obj.read < MaxLines
    /\ \E status \in {"reading", "err"} :
           obj' = [obj EXCEPT !.read = @ + 1, !.status = status]
    /\ UNCHANGED <<canvas, out, last, hadBlack, stage, seqP, renderer, frame,
                   line, view, camera, camOps, tri, camLast, modeBefore, mesh, term, circle>>

\* the end of the file: Ok(Self { vertices, triangles, .. })
EndOfFile ==
    /\ obj.status = "reading"
    /\ obj' = [obj EXCEPT !.status = "ok"]
    /\ UNCHANGED <<canvas, out, last, hadBlack, stage, seqP, renderer, frame,
                   line, view, camera, camOps, tri, camLast, modeBefore, mesh, term, circle>>

NextObj ==
    \/ OpenFile
    \/ \E parts \in TokenLists : ReadVertexLine(parts)
    \/ \E parts \in TokenLists : ReadFaceLine(parts)
    \/ ReadOtherLine
    \/ EndOfFile

SpecObj == Init /\ [][NextObj]_vars

----------------------------------------------------------------------------
(* SpecMesh: a mesh with a transform rendered once, in either mode, with   *)
(* one of several view-projection matrices, on a TriW x TriH canvas         *)

\* a mesh of one triangle over four fixed vertices
OneTriangle(a, b, c) ==
    [vertices |-> << Vertex(Units(-1, -1, 0)), Vertex(Units(1, -1, 0)),
                    Vertex(Units(0, 1, 0)), Vertex(Units(0, -1, 1)) >>,
     triangles |-> << Triangle(a, b, c, CYAN) >>,
     transform |-> TransformNew]

Meshes ==
    {CreatePlane(2 * Scale), CreatePyramid(Scale),
     OneTriangle(0, 1, 2), OneTriangle(0, 2, 1), OneTriangle(0, 1, 3)}

\* rotations of Transform, in degrees, and positions
MeshRotations == {Vec3(rx, ry, 0) : rx \in {0, 90, 180}, ry \in {0, 180}}

MeshPositions == {Units(0, 0, 0), Vec3(Scale \div 2, 0, 0)}

\* the view_projection argument: no camera, a mirror of the depth axis, and
\* the view matrices of a camera in front of and behind the origin
ViewProjections ==
    {Identity, ScaleMatrix(Scale, Scale, -Scale),
     Mat4LookAt(Units(0, 0, 1), Units(0, 0, 0), Units(0, 1, 0)),
     Mat4LookAt(Units(0, 0, -1), Units(0, 0, 0), Units(0, 1, 0))}

InitMesh ==
    /\ canvas = CanvasNew(TriW, TriH)
    /\ CanvasIdle
    /\ line = NoLine
    /\ view = NoView
    /\ camera = CameraNew
    /\ camOps = 0
    /\ tri = NoTri
    /\ camLast = NoCamOp
    /\ modeBefore = "Wireframe"
    /\ obj = NoObj
    /\ \E m \in Meshes, rotation \in MeshRotations, position \in MeshPositions :
           mesh = Unrendered([m EXCEPT !.transform.rotation = rotation,
                                       !.transform.position = position])
    /\ term = NoTerm
    /\ circle = NoCircle

RenderWireframeOp ==
    /\ mesh.mode = "none"
    /\ \E view_projection \in ViewProjections :
           mesh' = [mesh EXCEPT !.mode = "wireframe",
                                !.view_projection = view_projection,
                                !.parts = RenderWireframe(mesh, canvas, view_projection)]
    /\ UNCHANGED <<canvas, out, last, hadBlack, stage, seqP, renderer, frame,
                   line, view, camera, camOps, tri, camLast, modeBefore, obj, term, circle>>

RenderFilledOp ==
    /\ mesh.mode = "none"
    /\ \E view_projection \in ViewProjections :
           mesh' = [mesh EXCEPT !.mode = "filled",
                                !.view_projection = view_projection,
                                !.parts = RenderFilled(mesh, canvas, view_projection)]
    /\ UNCHANGED <<canvas, out, last, hadBlack, stage, seqP, renderer, frame,
                   line, view, camera, camOps, tri, camLast, modeBefore, obj, term, circle>>

NextMesh ==
    \/ RenderWireframeOp
    \/ RenderFilledOp

SpecMesh == InitMesh /\ [][NextMesh]_vars

----------------------------------------------------------------------------

(* SpecCircle: draw_circle applied to a centre in the middle of a          *)
(* CircleW x CircleH canvas and a radius of at most MaxRadius              *)

InitCircle ==
    /\ canvas = CanvasNew(CircleW, CircleH)
    /\ CanvasIdle
    /\ line = NoLine
    /\ view = NoView
    /\ camera = CameraNew
    /\ camOps = 0
    /\ tri = NoTri
    /\ camLast = NoCamOp
    /\ modeBefore = "Wireframe"
    /\ obj = NoObj
    /\ mesh = NoMesh
    /\ term = NoTerm
    /\ \E cx \in (CircleW \div 2 - 1)..(CircleW \div 2 + 1),
          cy \in (CircleH \div 2 - 1)..(CircleH \div 2 + 1),
          radius \in 0..MaxRadius :
           circle = [center_x |-> cx, center_y |-> cy, radius |-> radius,
                     drawn |-> FALSE, pixels |-> <<>>]

DrawCircleOp ==
    /\ ~circle.drawn
    /\ \E color \in MeshColors :
           circle' = [circle EXCEPT !.drawn = TRUE,
                                    !.pixels = DrawCircle(circle.center_x, circle.center_y,
                                                          circle.radius, canvas, color)]
    /\ UNCHANGED <<canvas, out, last, hadBlack, stage, seqP, renderer, frame,
                   line, view, camera, camOps, tri, camLast, modeBefore, obj, mesh, term>>

NextCircle == DrawCircleOp

SpecCircle == InitCircle /\ [][NextCircle]_vars

----------------------------------------------------------------------------
(* Claims about the canvas and the renderer *)

Buffers == <<canvas.r, canvas.g, canvas.b>>

AllBlack == \A i \in DOMAIN canvas.r : PixelAt(canvas, i) = BLACK

\* the colour the buffers hold at the coordinate of p
BufferAt(p) == PixelAt(canvas, p.y * canvas.width + p.x)

\* C1: after render(), a coordinate that several meshes (or triangles) emitted
\* holds the colour of the emission that comes last in scene.meshes order.
C1_LaterMeshOnTop ==
    frame.rendered =>
        LET px == MeshPixels(frame.meshes)
        IN  \A i \in 1..Len(px) :
                (\A j \in (i + 1)..Len(px) : px[j].x # px[i].x \/ px[j].y # px[i].y)
                    => BufferAt(px[i]) = ColorOf(px[i])

\* the writes of the last present() that address the terminal cell of seqP
CellWritesOfP ==
    {i \in 1..Len(out) : /\ out[i].k = "at"
                         /\ out[i].row = (seqP.y \div 2) + 1
                         /\ out[i].col = seqP.x + 1}

\* a write shows black for the sub-pixel of seqP (upper half = foreground)
ShowsPBlack(i) == IF seqP.y % 2 = 0 THEN out[i].fg = BLACK ELSE out[i].bg = BLACK

\* C2 as stated: after set_pixels([P]); present(); clear(); present() the buffer
\* is black at P and the second present() re-emits P's cell with P's sub-pixel
\* black, whatever the colour of P.
C2_AnyColourReemitted ==
    stage = 4 =>
        /\ BufferAt(seqP) = BLACK
        /\ \E i \in CellWritesOfP : ShowsPBlack(i)

\* C2 amended: the buffer is black at P and every write the second present()
\* makes to P's cell shows P's sub-pixel black; the cell is re-emitted when P
\* is not black.
C2_BlackAfterClear ==
    stage = 4 =>
        /\ BufferAt(seqP) = BLACK
        /\ \A i \in CellWritesOfP : ShowsPBlack(i)
        /\ ColorOf(seqP) # BLACK => CellWritesOfP # {}

C2_Witness ==
    /\ stage = 4
    /\ ColorOf(seqP) # BLACK
    /\ seqP.y % 2 = 1
    /\ Len(out) > 2

\* C3 as stated: a present() directly after a present() emits the same output
\* and leaves the buffers unchanged.
C3_PresentIdempotent ==
    [][last' = "present again" => (out' = out /\ Buffers' = Buffers)]_vars

\* C3 amended: a present() directly after a present() leaves the canvas
\* unchanged, and emits the same output as the call before it exactly when no
\* tracked coordinate had a black buffer pixel when that call started.
C3_PresentIdempotentUnlessPruned ==
    [][last' = "present again" =>
          /\ canvas' = canvas
          /\ (out' = out) <=> ~hadBlack]_vars

C3_Witness ==
    /\ last = "present again"
    /\ Len(out) > 1

\* C4: every tracked coordinate is inside the canvas, and a set_pixel call
\* with a coordinate outside it changes neither the buffers nor changed_coords.
C4_ChangedCoordsInRange ==
    /\ [](\A i \in 1..Len(canvas.changed_coords) :
              /\ 0 <= canvas.changed_coords[i].x
              /\ canvas.changed_coords[i].x < canvas.width
              /\ 0 <= canvas.changed_coords[i].y
              /\ canvas.changed_coords[i].y < canvas.height)
    /\ [][last' = "set_pixel dropped" => canvas' = canvas]_vars

C4_Witness ==
    /\ last = "set_pixel dropped"
    /\ \E i \in 1..Len(canvas.changed_coords) :
           /\ canvas.changed_coords[i].x = canvas.width - 1
           /\ canvas.changed_coords[i].y = canvas.height - 1

\* C5: a frame's present() walks at most the pixels written in this frame plus
\* those written in the previous one, and leaves at most as many coordinates
\* tracked as the frame wrote.
C5_CostProportionalToTouched ==
    frame.rendered =>
        /\ frame.walked <= frame.written + frame.prevWritten
        /\ Len(canvas.changed_coords) <= frame.written

NonBlackAt(coord) == BufferAt(coord) # BLACK

\* C6: present() keeps exactly the tracked coordinates whose buffer pixel is not
\* black, in their order.
C6_PresentPrunesBlack ==
    [][last' \in {"present", "present again"} =>
          canvas'.changed_coords = SelectSeq(canvas.changed_coords, NonBlackAt)]_vars

C6_Witness ==
    /\ last = "present"
    /\ Len(canvas.changed_coords) >= 1
    /\ Len(out) > Len(canvas.changed_coords) + 1

\* C7: after render() of a scene with zero meshes every buffer pixel is black
\* and no coordinate is tracked.
C7_EmptySceneBackground ==
    (frame.rendered /\ frame.meshes = <<>>) =>
        /\ AllBlack
        /\ canvas.changed_coords = <<>>

C7_Witness ==
    /\ frame.rendered
    /\ frame.meshes = <<>>
    /\ frame.walked >= 2
    /\ renderer.show_fps

----------------------------------------------------------------------------
(* Claims about the camera, the view matrix and the line rasterizer *)

\* C8: after any sequence of camera operations the pitch lies within
\* [-89, 89] degrees.
C8_PitchWithinLimit ==
    camera.pitch >= -PitchLimit /\ camera.pitch <= PitchLimit

\* the direction from eye to target is non-zero and not parallel to up = (0,1,0)
NonDegenerate ==
    view.center.x # view.eye.x \/ view.center.z # view.eye.z

\* C9: for the default up vector and every non-degenerate eye and target,
\* the target transformed by look_at(eye, target, up) has z < 0.
C9_TargetInFront ==
    (view.done /\ NonDegenerate) => view.p.z < 0

InsideCanvas(x, y) == x >= 0 /\ x < canvas.width /\ y >= 0 /\ y < canvas.height

EndpointsInside == InsideCanvas(line.x0, line.y0) /\ InsideCanvas(line.x1, line.y1)

PixelIs(p, x, y) == p.x = x /\ p.y = y

\* C10: for endpoints inside the canvas, draw_line emits
\* max(|x1-x0|, |y1-y0|) + 1 pixels, one per integer step along the major
\* axis, consecutive pixels differ by at most 1 in x and in y, and the first
\* and the last pixel are the two endpoints.
C10_LineConnectedRun ==
    (line.drawn /\ EndpointsInside) =>
        LET px == line.pixels
            n == Len(px)
            xMajor == Abs(line.x1 - line.x0) >= Abs(line.y1 - line.y0)
        IN  /\ n = Max(Abs(line.x1 - line.x0), Abs(line.y1 - line.y0)) + 1
            /\ \A i \in 1..(n - 1) :
                   /\ Abs(px[i + 1].x - px[i].x) <= 1
                   /\ Abs(px[i + 1].y - px[i].y) <= 1
                   /\ IF xMajor
                      THEN px[i + 1].x = px[i].x + 1
                      ELSE px[i + 1].y = px[i].y + 1
            /\ \/ PixelIs(px[1], line.x0, line.y0) /\ PixelIs(px[n], line.x1, line.y1)
               \/ PixelIs(px[1], line.x1, line.y1) /\ PixelIs(px[n], line.x0, line.y0)

\* a steep line drawn from its upper right end to its lower left end
C10_Witness ==
    /\ line.drawn
    /\ EndpointsInside
    /\ line.x1 < line.x0
    /\ line.y0 - line.y1 > line.x0 - line.x1
    /\ Len(line.pixels) = line.y0 - line.y1 + 1

\* C11: a horizontal line with both endpoints inside the canvas is emitted as
\* exactly |x1-x0|+1 pixels, all at the given y, whose x are pairwise distinct
\* and cover every integer between x0 and x1, whatever the endpoint order.
C11_HorizontalLine ==
    (line.drawn /\ EndpointsInside /\ line.y0 = line.y1) =>
        LET px == line.pixels
            n == Len(px)
            lo == IF line.x0 < line.x1 THEN line.x0 ELSE line.x1
            hi == IF line.x0 < line.x1 THEN line.x1 ELSE line.x0
        IN  /\ n = Abs(line.x1 - line.x0) + 1
            /\ \A i \in 1..n : px[i].y = line.y0
            /\ \A i \in 1..n, j \in 1..n : i # j => px[i].x # px[j].x
            /\ {px[i].x : i \in 1..n} = lo..hi

\* a horizontal line of at least three pixels given from right to left
C11_Witness ==
    /\ line.drawn
    /\ EndpointsInside
    /\ line.y0 = line.y1
    /\ line.x0 - line.x1 >= 2
    /\ Len(line.pixels) = line.x0 - line.x1 + 1

----------------------------------------------------------------------------
(* Claims about the triangle fill *)

\* the vertices are whole pixels
WholePixels == \A p \in {tri.p0, tri.p1, tri.p2} : p.x % Sub = 0 /\ p.y % Sub = 0

\* twice the signed area of the triangle (a, b, c)
Orient(a, b, c) == (b.x - a.x) * (c.y - a.y) - (b.y - a.y) * (c.x - a.x)

\* the point q lies in the closed triangle tri.p0, tri.p1, tri.p2
InHull(q) ==
    LET d == {Orient(tri.p0, tri.p1, q), Orient(tri.p1, tri.p2, q), Orient(tri.p2, tri.p0, q)}
        xs == {tri.p0.x, tri.p1.x, tri.p2.x}
        ys == {tri.p0.y, tri.p1.y, tri.p2.y}
    IN  /\ ~((\E v \in d : v < 0) /\ (\E v \in d : v > 0))
        /\ \E lo \in xs, hi \in xs : lo <= q.x /\ q.x <= hi
        /\ \E lo \in ys, hi \in ys : lo <= q.y /\ q.y <= hi

\* C12: for whole-pixel vertices inside the canvas no pixel that
\* draw_triangle_filled emits lies strictly outside the closed triangle.
C12_FillInsideHull ==
    (tri.drawn /\ WholePixels) =>
        \A i \in 1..Len(tri.pixels) :
            InHull(Vec2(tri.pixels[i].x * Sub, tri.pixels[i].y * Sub))

----------------------------------------------------------------------------
(* Claims about camera translations *)

SameOrientation ==
    /\ camera'.yaw = camera.yaw
    /\ camera'.pitch = camera.pitch
    /\ camera'.forward = camera.forward
    /\ camera'.right = camera.right
    /\ camera'.up = camera.up

\* v + axis * distance
Moved(v, axis, distance) ==
    Vec3(v.x + RDiv(axis.x * distance, Scale),
         v.y + RDiv(axis.y * distance, Scale),
         v.z + RDiv(axis.z * distance, Scale))

TargetAhead(c) ==
    c.target = Vec3(c.position.x + c.forward.x,
                    c.position.y + c.forward.y,
                    c.position.z + c.forward.z)

\* C13: move_forward, move_right, move_up and set_position leave yaw, pitch,
\* forward, right and up unchanged; a move shifts position by distance times
\* its axis; afterwards target = position + forward.
C13_TranslationKeepsOrientation ==
    [][/\ camLast'.op \in {"set_position", "move_forward", "move_right", "move_up"} =>
              SameOrientation /\ TargetAhead(camera')
       /\ camLast'.op = "set_position" => camera'.position \in CameraPoints
       /\ camLast'.op = "move_forward" =>
              camera'.position = Moved(camera.position, camera.forward, camLast'.distance)
       /\ camLast'.op = "move_right" =>
              camera'.position = Moved(camera.position, camera.right, camLast'.distance)
       /\ camLast'.op = "move_up" =>
              camera'.position = Moved(camera.position, camera.up, camLast'.distance)]_vars

\* a pitched camera that looked at a point and was then moved backwards
\* along its up axis
C13_Witness ==
    /\ camLast = CamOp("move_up", -Scale)
    /\ camera.pitch # 0
    /\ camera.position # Units(0, 0, 0)
    /\ camera.target # camera.position
    /\ TargetAhead(camera)

----------------------------------------------------------------------------
(* Claims about the renderer's toggles *)

\* C14: toggle_render_mode yields the other mode, changes no other Renderer
\* state, and applied twice in a row returns to the mode it started from.
C14_ToggleTwiceRestores ==
    [][last' = "toggle_render_mode" =>
          /\ renderer'.render_mode \in {"Wireframe", "Filled"}
          /\ renderer'.render_mode # renderer.render_mode
          /\ renderer'.show_fps = renderer.show_fps
          /\ renderer'.frame_count = renderer.frame_count
          /\ renderer'.current_fps = renderer.current_fps
          /\ last = "toggle_render_mode" => renderer'.render_mode = modeBefore]_vars

\* back in Wireframe by a toggle, with the FPS display on and a frame counted
C14_Witness ==
    /\ last = "toggle_render_mode"
    /\ modeBefore = "Filled"
    /\ renderer.render_mode = "Wireframe"
    /\ renderer.show_fps
    /\ renderer.frame_count > 0

----------------------------------------------------------------------------
(* Claims about the OBJ loader *)

\* C15: the loader never panics on a token that is no number: the value
\* falls back to 0.0 and loading goes on.
C15_LoaderNeverPanics == obj.status # "panicked"

----------------------------------------------------------------------------
(* Claims about degenerate triangles *)

\* the vertices sorted by y, as draw_triangle_filled sorts them
SortedByY ==
    LET s1 == IF tri.p0.y > tri.p1.y THEN <<tri.p1, tri.p0, tri.p2>>
                                     ELSE <<tri.p0, tri.p1, tri.p2>>
        s2 == IF s1[2].y > s1[3].y THEN <<s1[1], s1[3], s1[2]>> ELSE s1
    IN  IF s2[1].y > s2[2].y THEN <<s2[2], s2[1], s2[3]>> ELSE s2

\* h < 0.1, for a height h in units of 1 / Sub
Tiny(h) == 10 * h < Sub

TotalHeight == SortedByY[3].y - SortedByY[1].y

UpperHeight == SortedByY[2].y - SortedByY[1].y

LowerHeight == SortedByY[3].y - SortedByY[2].y

\* C16 as stated: no pixel at all when the total height or either half
\* height is below 0.1.
C16_SkippedWhenAnyHeightTiny ==
    (tri.drawn /\ (Tiny(TotalHeight) \/ Tiny(UpperHeight) \/ Tiny(LowerHeight))) =>
        tri.pixels = <<>>

\* the scanline y is filled from the lower half of the triangle
InLowerHalf(y) == y * Sub > SortedByY[2].y \/ SortedByY[2].y = SortedByY[1].y

\* C16, amended: no pixel at all when the total height is below 0.1;
\* otherwise a scanline has no pixel when the height of the half that fills
\* it is below 0.1, and a triangle with a flat top or a flat bottom that
\* spans a whole pixel row is drawn.
C16_SkippedWhenTotalHeightTiny ==
    tri.drawn =>
        /\ Tiny(TotalHeight) => tri.pixels = <<>>
        /\ \A i \in 1..Len(tri.pixels) :
               LET y == tri.pixels[i].y
               IN  ~Tiny(IF InLowerHalf(y) THEN LowerHeight ELSE UpperHeight)
        /\ (WholePixels /\ ~Tiny(TotalHeight) /\ (UpperHeight = 0 \/ LowerHeight = 0)) =>
               tri.pixels # <<>>

\* a triangle with a flat top, drawn
C16_Witness ==
    /\ tri.drawn
    /\ UpperHeight = 0
    /\ ~Tiny(TotalHeight)
    /\ Len(tri.pixels) >= 3

----------------------------------------------------------------------------
(* Claims about back-face culling *)

\* z of the normal (w1 - w0) x (w2 - w0) of the mesh's i-th triangle, w being
\* its vertices under the model transform alone
WorldNormalZ(i) ==
    LET model_matrix == ToMatrix(mesh.transform)
        w == [k \in 1..3 |->
                 TransformPoint(model_matrix,
                                mesh.vertices[mesh.triangles[i].vertices[k] + 1].position)]
    IN  Cross(Vec3(w[2].x - w[1].x, w[2].y - w[1].y, w[2].z - w[1].z),
              Vec3(w[3].x - w[1].x, w[3].y - w[1].y, w[3].z - w[1].z)).z

\* the pixels the fill rasterizer gives for the i-th triangle as projected by
\* the matrix the mesh was rendered with
FillOfProjected(i) ==
    LET mvp == Multiply(mesh.view_projection, ToMatrix(mesh.transform))
        p == Projected(mesh, mesh.triangles[i], canvas, mvp)
    IN  DrawTriangleFilled(p[1], p[2], p[3], canvas, mesh.triangles[i].color)

WireframeOfProjected(i) ==
    LET mvp == Multiply(mesh.view_projection, ToMatrix(mesh.transform))
        p == Projected(mesh, mesh.triangles[i], canvas, mvp)
    IN  DrawTriangleWireframe(p[1], p[2], p[3], canvas, mesh.triangles[i].color)

\* C17: in render_filled a triangle whose world-space normal has z < 0
\* contributes no pixels and every other triangle contributes its fill,
\* whatever the view-projection matrix; render_wireframe draws the outline
\* of every triangle, whatever its normal.
C17_CullByWorldNormal ==
    \A i \in 1..Len(mesh.parts) :
        /\ (mesh.mode = "filled" /\ WorldNormalZ(i) < 0) => mesh.parts[i] = <<>>
        /\ (mesh.mode = "filled" /\ WorldNormalZ(i) >= 0) =>
               mesh.parts[i] = FillOfProjected(i)
        /\ mesh.mode = "wireframe" => mesh.parts[i] = WireframeOfProjected(i)

\* a filled render through a camera matrix in which one triangle was culled
\* although its projection covers pixels, and another triangle was drawn
C17_Witness ==
    /\ mesh.mode = "filled"
    /\ mesh.view_projection # Identity
    /\ \E i \in 1..Len(mesh.parts) :
           /\ WorldNormalZ(i) < 0
           /\ FillOfProjected(i) # <<>>
           /\ mesh.parts[i] = <<>>
    /\ \E j \in 1..Len(mesh.parts) : mesh.parts[j] # <<>>

----------------------------------------------------------------------------
(* Claims about stale pixels *)

IsBlackAt(idx) == PixelAt(canvas, idx) = BLACK

TrackedAt(idx) ==
    \E i \in 1..Len(canvas.changed_coords) :
        Idx(canvas, canvas.changed_coords[i].x, canvas.changed_coords[i].y) = idx

\* the pixels the meshes of the most recent frame emitted
WrittenThisFrame(idx) ==
    \E i \in 1..Len(MeshPixels(frame.meshes)) :
        Idx(canvas, MeshPixels(frame.meshes)[i].x, MeshPixels(frame.meshes)[i].y) = idx

\* C18: every pixel that is not black has its coordinate in changed_coords;
\* after clear() the whole buffer is black; after render() every pixel that
\* is not black was written by that frame.
C18_NoStalePixels ==
    \A idx \in DOMAIN canvas.r :
        /\ ~IsBlackAt(idx) => TrackedAt(idx)
        /\ last = "clear" => IsBlackAt(idx)
        /\ (last = "render" /\ ~IsBlackAt(idx)) => WrittenThisFrame(idx)

\* a frame after a frame that wrote a pixel: one pixel is lit, and a pixel
\* that is tracked no more is black
C18_Witness ==
    /\ last = "render"
    /\ frame.prevWritten >= 1
    /\ frame.written >= 1
    /\ \E idx \in DOMAIN canvas.r : ~IsBlackAt(idx)
    /\ \E idx \in DOMAIN canvas.r : IsBlackAt(idx) /\ ~TrackedAt(idx)

----------------------------------------------------------------------------
(* Claims about the terminal *)

\* every cell of the screen shows the two buffer pixels it stands for
Mirrors ==
    \A row \in TermRows(canvas), col \in TermCols(canvas) :
        LET upper == 2 * (row - 1)
            lower == 2 * (row - 1) + 1
        IN  /\ term.cells[row][col][1] = PixelAt(canvas, Idx(canvas, col - 1, upper))
            /\ term.cells[row][col][2] =
                   IF lower >= canvas.height
                   THEN BLACK
                   ELSE PixelAt(canvas, Idx(canvas, col - 1, lower))

\* the terminal cell (row, col) holds a coordinate of changed_coords
CellChanged(row, col) ==
    \E i \in 1..Len(canvas.changed_coords) :
        /\ canvas.changed_coords[i].x + 1 = col
        /\ canvas.changed_coords[i].y \div 2 + 1 = row

\* C19: once init() has run, after every present() each cell of the terminal
\* shows the buffer colours of its two pixels (black for the missing lower
\* pixel of an odd last row), and present() writes only cells that hold a
\* coordinate of changed_coords.
C19_TerminalMirrorsBuffer ==
    /\ []((term.painted /\ last = "present") => Mirrors)
    /\ [][last' = "present" =>
              \A i \in 1..Len(out') :
                  out'[i].k = "at" => CellChanged(out'[i].row, out'[i].col)]_vars

\* after init() and a present(), a canvas of odd height with a lit pixel in
\* its last row, a cell that the present() wrote, and a cell that it did not
\* write
C19_Witness ==
    /\ term.painted
    /\ last = "present"
    /\ canvas.height % 2 = 1
    /\ ~IsBlackAt(Idx(canvas, 0, canvas.height - 1))
    /\ \E i \in 1..Len(out) : out[i].k = "at"
    /\ \E row \in TermRows(canvas), col \in TermCols(canvas) :
           /\ term.cells[row][col] # Erased
           /\ \A i \in 1..Len(out) :
                  out[i].k = "at" => (out[i].row # row \/ out[i].col # col)

----------------------------------------------------------------------------
(* Claims about the circle rasterizer *)

\* the circle around the centre, one pixel of margin included, is inside the
\* canvas
CircleInside ==
    /\ circle.center_x - circle.radius - 1 >= 0
    /\ circle.center_x + circle.radius + 1 < canvas.width
    /\ circle.center_y - circle.radius - 1 >= 0
    /\ circle.center_y + circle.radius + 1 < canvas.height

\* the squared distance of an emitted pixel from the centre
Dist2(p) ==
    (p.x - circle.center_x) * (p.x - circle.center_x)
        + (p.y - circle.center_y) * (p.y - circle.center_y)

\* the distance differs from the radius by less than one pixel
NearCircle(p) ==
    /\ Dist2(p) < (circle.radius + 1) * (circle.radius + 1)
    /\ circle.radius >= 1 => Dist2(p) > (circle.radius - 1) * (circle.radius - 1)

Emitted(x, y) ==
    \E i \in 1..Len(circle.pixels) : circle.pixels[i].x = x /\ circle.pixels[i].y = y

\* the emitted set holds the eight reflections of p about the centre
Reflected(p) ==
    LET dx == p.x - circle.center_x
        dy == p.y - circle.center_y
    IN  \A sx \in {-1, 1}, sy \in {-1, 1} :
            /\ Emitted(circle.center_x + sx * dx, circle.center_y + sy * dy)
            /\ Emitted(circle.center_x + sx * dy, circle.center_y + sy * dx)

\* C20: for a circle inside the canvas every emitted pixel is less than one
\* pixel away from the circle of the radius (for radius 0: is the centre),
\* and the emitted set is symmetric under the eight reflections.
C20_OnMidpointCircle ==
    (circle.drawn /\ CircleInside) =>
        \A i \in 1..Len(circle.pixels) :
            NearCircle(circle.pixels[i]) /\ Reflected(circle.pixels[i])

\* the same for radius >= 1
OnMidpointCircleFromRadiusOne ==
    (circle.drawn /\ CircleInside /\ circle.radius >= 1) =>
        \A i \in 1..Len(circle.pixels) :
            NearCircle(circle.pixels[i]) /\ Reflected(circle.pixels[i])

====
